---- MODULE Spec2Model ----
(***************************************************************************)
(* The plugin contract of 3ML, as defined in                               *)
(* docs/notebooks/custom_plugins.ipynb: the abstract class PluginPrototype *)
(* and the two subclasses of the notebook, BadPlugin and GoodPlugin.       *)
(*                                                                         *)
(* Python objects are modelled by reference: a plugin holds the index of   *)
(* its nuisance-parameter dict in the heap of dict objects, because        *)
(* __init__ and update_nuisance_parameters store the caller's object and   *)
(* do not copy it.  Strings that the code inspects (the plugin name) are   *)
(* sequences of one-character strings, so that lower() and the identifier  *)
(* test are computed.  Python runs with assert statements enabled (no -O)  *)
(* and with the default warning filters (a warning never raises).          *)
(***************************************************************************)
EXTENDS Integers, Sequences, FiniteSets, TLC

VARIABLES
    plugins,    \* the plugin objects, in the order of their construction
    heap,       \* the dict objects, in the order of their construction
    call,       \* the operation called last
    exc,        \* the exception the last call raised
    ret,        \* the value the last call returned
    warned      \* the warnings the last call emitted

vars == <<plugins, heap, call, exc, ret, warned>>

-----------------------------------------------------------------------------
(* Bounds of the model. *)

MaxPlugins == 2
MaxDicts == 2
MaxSpecLen == 4

-----------------------------------------------------------------------------
(* Strings. *)

UpperCase == <<"A","B","C","D","E","F","G","H","I","J","K","L","M",
               "N","O","P","Q","R","S","T","U","V","W","X","Y","Z">>
LowerCase == <<"a","b","c","d","e","f","g","h","i","j","k","l","m",
               "n","o","p","q","r","s","t","u","v","w","x","y","z">>
Digits == {"0","1","2","3","4","5","6","7","8","9"}

Range(s) == { s[i] : i \in DOMAIN s }

Letters == Range(UpperCase) \cup Range(LowerCase)
IdentifierStart == Letters \cup {"_"}
IdentifierChars == Letters \cup Digits \cup {"_"}

\* the lower-case letter of each upper-case letter
LowerOf == [c \in Range(UpperCase) |->
              LowerCase[CHOOSE i \in DOMAIN UpperCase : UpperCase[i] = c]]

\* str.lower() on one character
lower_char(c) == IF c \in DOMAIN LowerOf THEN LowerOf[c] ELSE c

\* str.lower()
lower(s) == [i \in DOMAIN s |-> lower_char(s[i])]

\* threeML's is_valid_variable_name: a python identifier (no spaces, cannot
\* start with a number, no operator symbols)
is_valid_variable_name(s) ==
    /\ Len(s) > 0
    /\ s[1] \in IdentifierStart
    /\ \A i \in DOMAIN s : s[i] \in IdentifierChars

total == <<"t","o","t","a","l">>

\* "dummy_%s" % name
dummy_name(nm) == <<"d","u","m","m","y","_">> \o nm

-----------------------------------------------------------------------------
(* Inputs. *)

\* names a caller passes to a constructor
NameInputs ==
    { <<"N","a","m","e">>,
      <<"t","o","t","a","l","1">>,
      total,
      <<"T","o","t","a","l">>,
      <<"T","O","T","A","L">>,
      <<"1","a">>,
      <<"a"," ","b">>,
      <<"a","-","b">>,
      <<>> }

\* the names passed to a class that cannot be instantiated: the call never
\* looks at them
AbstractNameInputs == { <<"n","a","m","e">> }

\* astromodels.Parameter(name, value, min_value, max_value, delta, free);
\* the floating-point fields are in hundredths
Parameter(nm, value, min_value, max_value, delta, free) ==
    [name |-> nm, value |-> value, min_value |-> min_value,
     max_value |-> max_value, delta |-> delta, free |-> free]

\* the key and the parameter a caller puts in a dict of its own
UserKey == <<"k">>
UserParameters == { Parameter(UserKey, 200, 0, 1000, 10, TRUE) }

\* the contents of a dict: a function from its keys to parameters
EmptyItems == [k \in {} |-> Parameter(<<>>, 0, 0, 0, 0, FALSE)]
Items(k, par) == [x \in {k} |-> par]
SetItemIn(items, k, par) ==
    [x \in (DOMAIN items) \cup {k} |-> IF x = k THEN par ELSE items[x]]

\* dict literals a caller builds
DictInputs == {EmptyItems} \cup { Items(UserKey, par) : par \in UserParameters }

\* python values passed as a nuisance-parameter argument: a reference to a
\* dict object of the heap, or a value that is not a dict
Ref(d) == [t |-> "ref", ref |-> d]
NonDicts == { [t |-> "NoneType", ref |-> 0], [t |-> "list", ref |-> 0] }
ArgInputs == { Ref(d) : d \in DOMAIN heap } \cup NonDicts

DictTypes == {"dict", "OrderedDict"}

\* isinstance(x, dict), x a value and h the heap it refers to
isinstance_dict(h, x) == x.t = "ref" /\ h[x.ref].type \in DictTypes

\* values used in tag specifications
IndependentVariables == {"time"}
FirstValues == {"time", "x"}
RestValues == <<"t0", "t1", "t2", "t3", "t4">>

\* isinstance(x, IndependentVariable)
isinstance_IndependentVariable(x) == x \in IndependentVariables

\* tag specifications (iv, t0, t1, ...) of every length up to MaxSpecLen
SpecInputs ==
    {<<>>} \cup
    { [i \in 1..n |-> IF i = 1 THEN iv ELSE RestValues[i - 1]] :
        n \in 1..MaxSpecLen, iv \in FirstValues }

Models == {"model"}

-----------------------------------------------------------------------------
(* Python values held in the state. *)

None == [t |-> "None", v |-> <<>>]
Tuple(s) == [t |-> "tuple", v |-> s]

RetNone == [t |-> "None", s |-> <<>>, n |-> 0]
RetStr(s) == [t |-> "str", s |-> s, n |-> 0]
RetFloat(n) == [t |-> "float", s |-> <<>>, n |-> n]

NoWarnings == {}

\* exceptions: the type and what the message is about
NoException == [type |-> "None", msg |-> ""]
AssertionError(msg) == [type |-> "AssertionError", msg |-> msg]
TypeError == [type |-> "TypeError", msg |-> "abstract methods"]
ValueError == [type |-> "ValueError", msg |-> "tag specification"]

\* no call is under way: the caller has taken the outcome of the last one
Idle == call = "none"

\* a call that returns None, raises nothing and warns nothing
Quiet == exc' = NoException /\ ret' = RetNone /\ warned' = NoWarnings

\* a call that raises e
Raise(e) == exc' = e /\ ret' = RetNone /\ warned' = NoWarnings

-----------------------------------------------------------------------------
(* abc.ABCMeta *)

Required == {"set_model", "get_log_like", "inner_fit"}

\* a direct subclass of PluginPrototype is given by the operations it defines
Classes == SUBSET Required

\* a class whose metaclass is not ABCMeta has no abstract methods
abstractmethods_not_enforced(defines) == {}

\* cls.__abstractmethods__
abstractmethods(defines) == Required \ defines

-----------------------------------------------------------------------------
(* PluginPrototype *)

Init ==
    /\ plugins = <<>>
    /\ heap = <<>>
    /\ call = "none"
    /\ exc = NoException
    /\ ret = RetNone
    /\ warned = NoWarnings

\* the object __init__ initialises
NewPlugin(nm, d) ==
    [_name |-> nm, _nuisance_parameters |-> d, _tag |-> None, _model |-> "unset"]

\* __init__ without the identifier check on the name
PluginPrototype_init_any_identifier(h, nm, np) ==
    IF lower(nm) = total THEN
        [exc |-> AssertionError("cannot use 'total' as name"), self |-> <<>>]
    ELSE IF ~ isinstance_dict(h, np) THEN
        [exc |-> AssertionError(""), self |-> <<>>]
    ELSE
        [exc |-> NoException, self |-> << NewPlugin(nm, np.ref) >>]

\* __init__ storing the lower-cased name
PluginPrototype_init_lowered(h, nm, np) ==
    IF ~ is_valid_variable_name(nm) THEN
        [exc |-> AssertionError("cannot be used as a name"), self |-> <<>>]
    ELSE IF lower(nm) = total THEN
        [exc |-> AssertionError("cannot use 'total' as name"), self |-> <<>>]
    ELSE IF ~ isinstance_dict(h, np) THEN
        [exc |-> AssertionError(""), self |-> <<>>]
    ELSE
        [exc |-> NoException, self |-> << NewPlugin(lower(nm), np.ref) >>]

\* __init__ storing a dict other than the one it is given
PluginPrototype_init_other_dict(h, nm, np) ==
    IF ~ is_valid_variable_name(nm) THEN
        [exc |-> AssertionError("cannot be used as a name"), self |-> <<>>]
    ELSE IF lower(nm) = total THEN
        [exc |-> AssertionError("cannot use 'total' as name"), self |-> <<>>]
    ELSE IF ~ isinstance_dict(h, np) THEN
        [exc |-> AssertionError(""), self |-> <<>>]
    ELSE
        [exc |-> NoException, self |-> << NewPlugin(nm, 1) >>]

\* __init__ comparing the name itself, not its lower-cased form, with "total"
PluginPrototype_init_case_sensitive(h, nm, np) ==
    IF ~ is_valid_variable_name(nm) THEN
        [exc |-> AssertionError("cannot be used as a name"), self |-> <<>>]
    ELSE IF nm = total THEN
        [exc |-> AssertionError("cannot use 'total' as name"), self |-> <<>>]
    ELSE IF ~ isinstance_dict(h, np) THEN
        [exc |-> AssertionError(""), self |-> <<>>]
    ELSE
        [exc |-> NoException, self |-> << NewPlugin(nm, np.ref) >>]

\* PluginPrototype.__init__(self, name, nuisance_parameters), run with the
\* dict objects h: the exception it raises ("None" if it returns) and the
\* object it has initialised
PluginPrototype_init(h, nm, np) ==
    IF ~ is_valid_variable_name(nm) THEN
        [exc |-> AssertionError("cannot be used as a name"), self |-> <<>>]
    ELSE IF lower(nm) = total THEN
        [exc |-> AssertionError("cannot use 'total' as name"), self |-> <<>>]
    ELSE IF ~ isinstance_dict(h, np) THEN
        [exc |-> AssertionError(""), self |-> <<>>]
    ELSE
        [exc |-> NoException, self |-> << NewPlugin(nm, np.ref) >>]

\* the name property
name(p) == plugins[p]._name

\* the nuisance_parameters property: the dict object it returns, and the
\* contents of that object
nuisance_parameters(p) == plugins[p]._nuisance_parameters
nuisance_items(p) == heap[nuisance_parameters(p)].items

\* _get_tag
tag(p) == plugins[p]._tag

\* Sub(nm, np) for a direct subclass Sub of PluginPrototype that defines the
\* operations `defines` and inherits __init__ (BadPlugin is the subclass that
\* defines none): the exception raised and the object made.  object.__new__
\* refuses a class whose __abstractmethods__ is not empty, before __init__
\* runs.
Instantiate_result(defines, nm, np) ==
    IF abstractmethods(defines) # {}
    THEN [exc |-> TypeError, self |-> <<>>]
    ELSE PluginPrototype_init(heap, nm, np)

Instantiate(defines, nm, np) ==
    LET r == Instantiate_result(defines, nm, np) IN
    /\ Idle
    /\ call' = "Instantiate"
    /\ Len(plugins) + Len(r.self) <= MaxPlugins
    /\ plugins' = plugins \o r.self
    /\ Raise(r.exc)
    /\ UNCHANGED heap

\* the OrderedDict GoodPlugin.__init__ builds: one dummy parameter
GoodPlugin_dict(nm) ==
    [type |-> "OrderedDict",
     items |-> Items(dummy_name(nm),
                     Parameter(dummy_name(nm), 100, 80, 120, 5, FALSE))]

\* GoodPlugin(nm): GoodPlugin.__init__ passes its new dict to
\* PluginPrototype.__init__: the exception raised, the object made and the
\* dict it holds (the dict of a failed construction is garbage)
GoodPlugin_result(nm) ==
    LET h == Append(heap, GoodPlugin_dict(nm))
        r == PluginPrototype_init(h, nm, Ref(Len(h)))
    IN [exc |-> r.exc,
        self |-> r.self,
        dict |-> IF r.exc = NoException THEN << GoodPlugin_dict(nm) >> ELSE <<>>]

GoodPlugin_init(nm) ==
    LET r == GoodPlugin_result(nm) IN
    /\ Idle
    /\ call' = "GoodPlugin"
    /\ Len(plugins) + Len(r.self) <= MaxPlugins
    /\ Len(heap) + Len(r.dict) <= MaxDicts
    /\ heap' = heap \o r.dict
    /\ plugins' = plugins \o r.self
    /\ Raise(r.exc)

\* a caller builds a dict of its own
NewDict(items) ==
    /\ Idle
    /\ call' = "dict"
    /\ Len(heap) < MaxDicts
    /\ heap' = Append(heap, [type |-> "dict", items |-> items])
    /\ Quiet
    /\ UNCHANGED plugins

\* an update that merges the new mapping into the old one, as dict.update
update_nuisance_parameters_merging(p, new_nuisance_parameters) ==
    /\ Idle
    /\ call' = "update_nuisance_parameters"
    /\ IF ~ isinstance_dict(heap, new_nuisance_parameters) THEN
            /\ Raise(AssertionError(""))
            /\ UNCHANGED heap
       ELSE
            LET old == heap[nuisance_parameters(p)].items
                new == heap[new_nuisance_parameters.ref].items
            IN /\ heap' = [heap EXCEPT ![nuisance_parameters(p)].items =
                             [k \in DOMAIN old \cup DOMAIN new |->
                                IF k \in DOMAIN new THEN new[k] ELSE old[k]]]
               /\ Quiet
    /\ UNCHANGED plugins

\* update_nuisance_parameters(self, new_nuisance_parameters)
update_nuisance_parameters(p, new_nuisance_parameters) ==
    /\ Idle
    /\ call' = "update_nuisance_parameters"
    /\ IF ~ isinstance_dict(heap, new_nuisance_parameters) THEN
            /\ Raise(AssertionError(""))
            /\ UNCHANGED plugins
       ELSE
            /\ plugins' = [plugins EXCEPT ![p]._nuisance_parameters =
                                               new_nuisance_parameters.ref]
            /\ Quiet
    /\ UNCHANGED heap

\* self.nuisance_parameters[k] = par: a change made through the mapping the
\* property returns
SetItem(p, k, par) ==
    /\ Idle
    /\ call' = "setitem"
    /\ heap' = [heap EXCEPT ![nuisance_parameters(p)].items =
                                SetItemIn(@, k, par)]
    /\ Quiet
    /\ UNCHANGED plugins

\* a _set_tag that stores the specification as it is given
set_tag_result_as_given(old, spec) ==
    IF Len(spec) \notin {2, 3} THEN
        [exc |-> ValueError, warned |-> NoWarnings, _tag |-> old]
    ELSE
        [exc |-> NoException,
         warned |-> IF ~ isinstance_IndependentVariable(spec[1])
                    THEN {"UserWarning"} ELSE NoWarnings,
         _tag |-> Tuple(spec)]

\* a _set_tag that clears the tag before it looks at the specification
set_tag_result_cleared(old, spec) ==
    IF Len(spec) \notin {2, 3} THEN
        [exc |-> ValueError, warned |-> NoWarnings, _tag |-> None]
    ELSE
        [exc |-> NoException,
         warned |-> IF ~ isinstance_IndependentVariable(spec[1])
                    THEN {"UserWarning"} ELSE NoWarnings,
         _tag |-> Tuple(<<spec[1], spec[2],
                          IF Len(spec) = 2 THEN "None" ELSE spec[3]>>)]

\* _set_tag(self, spec): the exception it raises, the warnings it emits and
\* the value of self._tag when it ends
set_tag_result(old, spec) ==
    IF Len(spec) \notin {2, 3} THEN
        [exc |-> ValueError, warned |-> NoWarnings, _tag |-> old]
    ELSE
        LET independent_variable == spec[1]
            start == spec[2]
            end == IF Len(spec) = 2 THEN "None" ELSE spec[3]
        IN [exc |-> NoException,
            warned |-> IF ~ isinstance_IndependentVariable(independent_variable)
                       THEN {"UserWarning"} ELSE NoWarnings,
            _tag |-> Tuple(<<independent_variable, start, end>>)]

\* self.tag = spec
set_tag(p, spec) ==
    LET r == set_tag_result(tag(p), spec) IN
    /\ Idle
    /\ call' = "set_tag"
    /\ plugins' = [plugins EXCEPT ![p]._tag = r._tag]
    /\ exc' = r.exc
    /\ ret' = RetNone
    /\ warned' = r.warned
    /\ UNCHANGED heap

\* a get_name that raises the deprecation instead of warning of it
get_name_raising(p) ==
    /\ Idle
    /\ call' = "get_name"
    /\ Raise([type |-> "DeprecationWarning", msg |-> "use the .name property"])
    /\ UNCHANGED <<plugins, heap>>

\* get_name(self)
get_name(p) ==
    /\ Idle
    /\ call' = "get_name"
    /\ warned' = {"DeprecationWarning"}
    /\ ret' = RetStr(name(p))
    /\ exc' = NoException
    /\ UNCHANGED <<plugins, heap>>

\* get_number_of_data_points(self)
get_number_of_data_points(p) ==
    /\ Idle
    /\ call' = "get_number_of_data_points"
    /\ warned' = {"UserWarning"}
    /\ ret' = RetFloat(1)
    /\ exc' = NoException
    /\ UNCHANGED <<plugins, heap>>

-----------------------------------------------------------------------------
(* GoodPlugin *)

\* GoodPlugin.set_model(self, model)
set_model(p, model) ==
    /\ Idle
    /\ call' = "set_model"
    /\ plugins' = [plugins EXCEPT ![p]._model = model]
    /\ Quiet
    /\ UNCHANGED heap

\* the value GoodPlugin.get_log_like returns
log_like(p) == -99

\* an inner_fit that returns the number of nuisance parameters it fitted
inner_fit_value_count(p) == Cardinality(DOMAIN nuisance_items(p))

\* the value GoodPlugin.inner_fit returns
inner_fit_value(p) == log_like(p)

\* GoodPlugin.get_log_like(self)
get_log_like(p) ==
    /\ Idle
    /\ call' = "get_log_like"
    /\ ret' = RetFloat(log_like(p))
    /\ exc' = NoException
    /\ warned' = NoWarnings
    /\ UNCHANGED <<plugins, heap>>

\* GoodPlugin.inner_fit(self)
inner_fit(p) ==
    /\ Idle
    /\ call' = "inner_fit"
    /\ ret' = RetFloat(inner_fit_value(p))
    /\ exc' = NoException
    /\ warned' = NoWarnings
    /\ UNCHANGED <<plugins, heap>>

-----------------------------------------------------------------------------

\* the call is over: the caller has seen what it raised, returned and warned
Return ==
    /\ ~ Idle
    /\ call' = "none"
    /\ Quiet
    /\ UNCHANGED <<plugins, heap>>

Objects == DOMAIN plugins

Next ==
    \/ \E nm \in NameInputs, np \in ArgInputs :
            Instantiate(Required, nm, np)
    \/ \E defines \in Classes \ {Required}, nm \in AbstractNameInputs,
          np \in ArgInputs :
            Instantiate(defines, nm, np)
    \/ \E nm \in NameInputs : GoodPlugin_init(nm)
    \/ \E items \in DictInputs : NewDict(items)
    \/ \E p \in Objects, np \in ArgInputs : update_nuisance_parameters(p, np)
    \/ \E p \in Objects, par \in UserParameters : SetItem(p, UserKey, par)
    \/ \E p \in Objects, spec \in SpecInputs : set_tag(p, spec)
    \/ \E p \in Objects : get_name(p)
    \/ \E p \in Objects : get_number_of_data_points(p)
    \/ \E p \in Objects, model \in Models : set_model(p, model)
    \/ \E p \in Objects : get_log_like(p)
    \/ \E p \in Objects : inner_fit(p)
    \/ Return

Spec == Init /\ [][Next]_vars

-----------------------------------------------------------------------------
(* Properties. *)

\* a name a plugin may not bear: not an identifier, or the reserved name
Rejected(nm) == ~ is_valid_variable_name(nm) \/ nm = total

\* the plugin a construction has just added
new == Len(plugins')

Constructed ==
    /\ call' \in {"Instantiate", "GoodPlugin"}
    /\ exc' = NoException


\* C1: whenever a plugin can be constructed, constructing it with a name that
\* is not a valid identifier, or with the reserved name "total", raises an
\* error whatever the nuisance-parameter argument, and makes no plugin; no
\* plugin ever bears such a name.
C1_InvalidNameRejected ==
    /\ Idle =>
          \A nm \in { n \in NameInputs : Rejected(n) } :
              /\ \A np \in ArgInputs :
                    LET r == Instantiate_result(Required, nm, np)
                    IN r.exc.type = "AssertionError" /\ r.self = <<>>
              /\ LET r == GoodPlugin_result(nm)
                 IN r.exc.type = "AssertionError" /\ r.self = <<>>
    /\ \A p \in DOMAIN plugins : ~ Rejected(name(p))

\* a construction with a name that is no identifier has failed, and one with
\* the reserved name
C1_Witness ==
    /\ call = "Instantiate"
    /\ exc \in { AssertionError("cannot be used as a name"),
                 AssertionError("cannot use 'total' as name") }
    /\ Len(heap) > 0

\* C2: a subclass that omits one or more of set_model, get_log_like and
\* inner_fit cannot be instantiated: in every state where it can be called,
\* whatever the arguments, the call raises TypeError and makes nothing; a
\* subclass that defines all three is instantiated by a call with a valid
\* name and a dict.
C2_AbstractNotInstantiable ==
    Idle =>
      /\ \A defines \in Classes \ {Required} :
            \A nm \in NameInputs \cup AbstractNameInputs, np \in ArgInputs :
                Instantiate_result(defines, nm, np) = [exc |-> TypeError, self |-> <<>>]
      /\ \A nm \in { n \in NameInputs : ~ Rejected(n) /\ lower(n) # total } :
            \A np \in ArgInputs \ NonDicts :
                LET r == Instantiate_result(Required, nm, np)
                IN r.exc = NoException /\ Len(r.self) = 1

\* the instantiation of an abstract subclass has failed
C2_Witness ==
    /\ call = "Instantiate"
    /\ exc = TypeError

\* C3: the name property of a constructed plugin is the string passed to the
\* constructor, and no operation changes it.
C3_NameIsConstructorArgument ==
    [][ /\ Constructed =>
              /\ \A nm \in NameInputs, np \in ArgInputs :
                    Instantiate(Required, nm, np) => plugins'[new]._name = nm
              /\ \A nm \in NameInputs :
                    GoodPlugin_init(nm) => plugins'[new]._name = nm
        /\ \A p \in DOMAIN plugins : plugins'[p]._name = plugins[p]._name
      ]_vars

\* a plugin constructed with a mixed-case name has been tagged, bound to a
\* model and asked for its name
C3_Witness ==
    /\ call = "get_name"
    /\ Len(plugins) = 1
    /\ name(1) = <<"N","a","m","e">>
    /\ ret = RetStr(<<"N","a","m","e">>)
    /\ tag(1) # None
    /\ plugins[1]._model = "model"

\* C4: right after construction, nuisance_parameters is the mapping supplied
\* to PluginPrototype.__init__: the same keys, and the same parameter for
\* each key.
C4_NuisanceParametersRoundTrip ==
    [][ Constructed =>
          /\ \A nm \in NameInputs, np \in ArgInputs :
                Instantiate(Required, nm, np) =>
                    /\ plugins'[new]._nuisance_parameters = np.ref
                    /\ heap'[np.ref] = heap[np.ref]
          /\ \A nm \in NameInputs :
                GoodPlugin_init(nm) =>
                    LET items == heap'[plugins'[new]._nuisance_parameters].items
                    IN /\ DOMAIN items = {dummy_name(nm)}
                       /\ items[dummy_name(nm)] =
                            Parameter(dummy_name(nm), 100, 80, 120, 5, FALSE)
      ]_vars

\* a plugin has been constructed with the second dict of the heap, a dict
\* that is not empty
C4_Witness ==
    /\ call = "Instantiate"
    /\ exc = NoException
    /\ Len(heap) = 2
    /\ nuisance_parameters(Len(plugins)) = 2
    /\ DOMAIN heap[2].items = {UserKey}

\* C5: inner_fit on a plugin that has no nuisance parameters returns what
\* get_log_like returns in that state.
C5_InnerFitIsLogLike ==
    [][ call' = "inner_fit" =>
          \A p \in DOMAIN plugins :
              (inner_fit(p) /\ DOMAIN nuisance_items(p) = {}) =>
                  /\ exc' = NoException
                  /\ ret' = RetFloat(log_like(p))
      ]_vars

\* inner_fit has been called on a plugin whose nuisance parameters were
\* replaced by an empty dict
C5_Witness ==
    /\ call = "inner_fit"
    /\ Len(plugins) = 1
    /\ nuisance_items(1) = EmptyItems
    /\ ret = RetFloat(-99)

\* the mapping the nuisance_parameters property of q returns: the dict
\* object and its contents
Mapping(q) == [dict |-> nuisance_parameters(q), items |-> nuisance_items(q)]
MappingAfter(q) ==
    [dict |-> plugins'[q]._nuisance_parameters,
     items |-> heap'[plugins'[q]._nuisance_parameters].items]

\* C6: nuisance parameters are private to their plugin: a construction, an
\* update_nuisance_parameters on another plugin, or a change made through
\* the mapping of another plugin, never changes the mapping the
\* nuisance_parameters property of a plugin returns.
C6_NuisanceParametersPrivate ==
    [][ \A q \in DOMAIN plugins :
          ( \/ call' \in {"Instantiate", "GoodPlugin"}
            \/ \E p \in DOMAIN plugins \ {q} :
                  \/ \E np \in ArgInputs : update_nuisance_parameters(p, np)
                  \/ \E par \in UserParameters : SetItem(p, UserKey, par) )
          => MappingAfter(q) = Mapping(q)
      ]_vars

\* C7: get_name emits a DeprecationWarning, raises nothing, returns the
\* value of the name property and changes nothing of the plugins.
C7_GetNameWarnsOnly ==
    [][ call' = "get_name" =>
          \A p \in DOMAIN plugins :
              get_name(p) =>
                  /\ "DeprecationWarning" \in warned'
                  /\ exc' = NoException
                  /\ ret' = RetStr(name(p))
                  /\ plugins' = plugins
                  /\ heap' = heap
      ]_vars

\* get_name has been called on a tagged plugin
C7_Witness ==
    /\ call = "get_name"
    /\ warned = {"DeprecationWarning"}
    /\ Len(plugins) = 1
    /\ ret = RetStr(name(1))
    /\ tag(1) # None

\* C8: the tag is None from construction until it is set; setting it to
\* (independent_variable, start) stores (independent_variable, start, None)
\* and setting it to (independent_variable, start, end) stores that triple,
\* whether or not the first element is an IndependentVariable, which only
\* decides whether a warning is emitted; so the tag is always None or a
\* 3-tuple.
C8_TagIsNoneOrTriple ==
    [][ /\ call' = "set_tag" =>
              \A p \in DOMAIN plugins :
                  \A spec \in { sp \in SpecInputs : Len(sp) \in {2, 3} } :
                      set_tag(p, spec) =>
                          /\ exc' = NoException
                          /\ plugins'[p]._tag =
                                IF Len(spec) = 2
                                THEN Tuple(<<spec[1], spec[2], "None">>)
                                ELSE Tuple(spec)
                          /\ warned' =
                                IF isinstance_IndependentVariable(spec[1])
                                THEN NoWarnings
                                ELSE {"UserWarning"}
        /\ Constructed => plugins'[new]._tag = None
        /\ call' # "set_tag" =>
              \A p \in DOMAIN plugins : plugins'[p]._tag = plugins[p]._tag
        /\ \A p \in DOMAIN plugins' :
              \/ plugins'[p]._tag = None
              \/ plugins'[p]._tag.t = "tuple" /\ Len(plugins'[p]._tag.v) = 3
      ]_vars

\* a 2-element specification whose first element is no IndependentVariable
\* has been stored, with a warning
C8_Witness ==
    /\ call = "set_tag"
    /\ warned = {"UserWarning"}
    /\ \E p \in DOMAIN plugins : tag(p) = Tuple(<<"x", "t0", "None">>)

\* C9: setting the tag to a specification whose length is neither 2 nor 3
\* raises ValueError and leaves the tag, the name and the nuisance parameters
\* as they were.
C9_BadTagLeavesPlugin ==
    [][ call' = "set_tag" =>
          \A p \in DOMAIN plugins :
              \A spec \in { sp \in SpecInputs : Len(sp) \notin {2, 3} } :
                  set_tag(p, spec) =>
                      /\ exc' = ValueError
                      /\ plugins' = plugins
                      /\ heap' = heap
      ]_vars

\* a bad specification has been refused by a plugin that bears a tag
C9_Witness ==
    /\ call = "set_tag"
    /\ exc = ValueError
    /\ Len(plugins) = 1
    /\ tag(1) = Tuple(<<"time", "t0", "t1">>)

\* C10: update_nuisance_parameters(m) with a dict m makes nuisance_parameters
\* return m, with nothing of the old mapping merged in, and leaves name and
\* tag alone; with an argument that is no dict it raises and the mapping
\* stays; so the nuisance-parameter mapping is always a dict.
C10_UpdateReplaces ==
    [][ /\ call' = "update_nuisance_parameters" =>
              \A p \in DOMAIN plugins, np \in ArgInputs :
                  update_nuisance_parameters(p, np) =>
                      IF np \in NonDicts
                      THEN /\ exc'.type = "AssertionError"
                           /\ plugins' = plugins
                           /\ heap' = heap
                      ELSE /\ exc' = NoException
                           /\ MappingAfter(p) =
                                [dict |-> np.ref, items |-> heap[np.ref].items]
                           /\ heap' = heap
                           /\ plugins' =
                                [plugins EXCEPT ![p]._nuisance_parameters = np.ref]
        /\ \A p \in DOMAIN plugins' :
              /\ plugins'[p]._nuisance_parameters \in DOMAIN heap'
              /\ heap'[plugins'[p]._nuisance_parameters].type \in DictTypes
      ]_vars

\* the OrderedDict of a GoodPlugin has been replaced by a dict of the caller
\* that lacks its key
C10_Witness ==
    /\ call = "update_nuisance_parameters"
    /\ exc = NoException
    /\ Len(plugins) = 1
    /\ heap[1].type = "OrderedDict"
    /\ nuisance_parameters(1) = 2
    /\ DOMAIN heap[1].items \cap DOMAIN nuisance_items(1) = {}

\* the names tried whose lower-cased form is "total", and those that only
\* contain it
Reserved == { n \in NameInputs : lower(n) = total }
ContainsTotal == { n \in NameInputs : Len(n) > Len(total) /\ lower(SubSeq(n, 1, Len(total))) = total }

\* C11: the reserved-name check is case-insensitive: whenever a plugin can be
\* constructed, every name whose lower-cased form is "total" ("total",
\* "Total", "TOTAL") is refused with the reserved-name error, whatever the
\* nuisance-parameter argument, while a name that only contains "total"
\* ("total1") is accepted with a dict; so the lower-cased name of every
\* plugin differs from "total".
C11_ReservedNameAnyCase ==
    /\ Idle =>
          /\ \A nm \in Reserved :
                /\ \A np \in ArgInputs :
                      Instantiate_result(Required, nm, np) =
                          [exc |-> AssertionError("cannot use 'total' as name"),
                           self |-> <<>>]
                /\ LET r == GoodPlugin_result(nm)
                   IN /\ r.exc = AssertionError("cannot use 'total' as name")
                      /\ r.self = <<>>
          /\ \A nm \in ContainsTotal :
                /\ \A np \in ArgInputs \ NonDicts :
                      LET r == Instantiate_result(Required, nm, np)
                      IN r.exc = NoException /\ r.self[1]._name = nm
                /\ GoodPlugin_result(nm).exc = NoException
    /\ \A p \in DOMAIN plugins : lower(name(p)) # total

\* names in three cases are reserved and one that contains "total" is not;
\* GoodPlugin has refused a reserved name while a plugin named "total1"
\* exists
C11_Witness ==
    /\ Reserved = { total, <<"T","o","t","a","l">>, <<"T","O","T","A","L">> }
    /\ ContainsTotal = { <<"t","o","t","a","l","1">> }
    /\ call = "GoodPlugin"
    /\ exc = AssertionError("cannot use 'total' as name")
    /\ \E p \in DOMAIN plugins : name(p) = <<"t","o","t","a","l","1">>

====
